---- MODULE Spec2Model ----
(***************************************************************************)
(* Model of the Claude Code on AWS onboarding CLI:                         *)
(*   admin create-aip  (src/src/claude-code-og/commands/admin_app.py)      *)
(*   client setup      (src/src/claude_code_og/commands/client_app.py)     *)
(* The Bedrock control plane and the local file system are the environment *)
(* the two commands act on.                                                *)
(***************************************************************************)
EXTENDS Integers, Sequences, FiniteSets, TLC

(***************************************************************************)
(* Bounds of the model.                                                    *)
(***************************************************************************)
\* longest system-defined listing the provider returns
MaxSys == 2
\* most key/value members written in a --tags argument
MaxTags == 2
\* command invocations in one behaviour
MaxRuns == 2

(***************************************************************************)
(* Text.  A text is a sequence of one-character strings, so that           *)
(* lower-casing, substring search, ordering and int() are computed.        *)
(***************************************************************************)
Upper == <<"A", "C", "D", "E", "H", "I", "K", "L", "O", "P", "S", "U">>
Lowered == <<"a", "c", "d", "e", "h", "i", "k", "l", "o", "p", "s", "u">>

\* str.lower() on one character
LowerChar(c) ==
    IF \E i \in 1..Len(Upper) : Upper[i] = c
    THEN Lowered[CHOOSE i \in 1..Len(Upper) : Upper[i] = c]
    ELSE c

\* str.lower()
Lower(s) == [i \in 1..Len(s) |-> LowerChar(s[i])]

\* `sub in s` for Python strings
Contains(s, sub) ==
    \E i \in 0..(Len(s) - Len(sub)) :
        \A j \in 1..Len(sub) : s[i + j] = sub[j]

\* code points of the characters the model uses, in Unicode order
CodeOrder == <<" ", "+", "-", "0", "1", "2", "3", "4", "5", "7", "9",
               "A", "C", "D", "E", "H", "I", "K", "L", "O", "P", "S", "U",
               "a", "c", "d", "e", "h", "i", "k", "l", "n", "o", "p", "s",
               "t", "u", "v", "x">>

Ord(c) == CHOOSE i \in 1..Len(CodeOrder) : CodeOrder[i] = c

\* Python's `a < b` on strings: lexicographic by code point
StrLess(a, b) ==
    \E i \in 1..(Len(b)) :
        /\ \A j \in 1..(i - 1) : j <= Len(a) /\ a[j] = b[j]
        /\ \/ i = Len(a) + 1
           \/ i <= Len(a) /\ Ord(a[i]) < Ord(b[i])

Digits == <<"0", "1", "2", "3", "4", "5", "6", "7", "8", "9">>

IsDigit(c) == \E i \in 1..Len(Digits) : Digits[i] = c

DigitValue(c) == (CHOOSE i \in 1..Len(Digits) : Digits[i] = c) - 1

\* str.strip() as int() applies it to its argument
RECURSIVE Strip(_)
Strip(s) ==
    IF s = <<>> THEN s
    ELSE IF Head(s) = " " THEN Strip(Tail(s))
    ELSE IF s[Len(s)] = " " THEN Strip(SubSeq(s, 1, Len(s) - 1))
    ELSE s

RECURSIVE DecimalValue(_)
DecimalValue(ds) ==
    IF ds = <<>> THEN 0
    ELSE 10 * DecimalValue(SubSeq(ds, 1, Len(ds) - 1)) + DigitValue(ds[Len(ds)])

\* int(text): surrounding blanks stripped, an optional sign, then digits only;
\* anything else raises ValueError (ok = FALSE)
PyInt(text) ==
    LET t == Strip(text)
        signed == t # <<>> /\ Head(t) \in {"+", "-"}
        ds == IF signed THEN Tail(t) ELSE t
    IN  IF ds # <<>> /\ \A i \in 1..Len(ds) : IsDigit(ds[i])
        THEN [ok |-> TRUE,
              val |-> IF signed /\ Head(t) = "-" THEN 0 - DecimalValue(ds)
                      ELSE DecimalValue(ds)]
        ELSE [ok |-> FALSE, val |-> 0]

\* rich's Prompt.ask(..., default=d): an empty answer yields the default
PromptAsk(answer, default) == IF answer = <<>> THEN default ELSE answer

(***************************************************************************)
(* System-defined profiles and Claude discovery (admin).                   *)
(***************************************************************************)
\* inferenceProfileId values the provider may list
SysIds == {
    <<"c", "l", "a", "u", "d", "e", "-", "3", "-", "7">>,  \* claude-3-7
    <<"C", "l", "a", "u", "d", "e", "-", "4">>,  \* Claude-4
    <<"c", "l", "a", "u", "d", "e", "-", "3", "-", "5">>,  \* claude-3-5
    <<"C", "L", "A", "U", "D", "E", "-", "3", "-", "O", "P", "U", "S">>,  \* CLAUDE-3-OPUS
    <<"c", "l", "a", "u", "d", "e", "-", "3", "-", "h", "a", "i", "k", "u">>,  \* claude-3-haiku
    <<"c", "l", "a", "u", "d", "e", "-", "3", "-", "s", "o", "n", "n", "e", "t">>,  \* claude-3-sonnet
    <<"n", "o", "v", "a", "-", "3", "-", "7">>,  \* nova-3-7
    <<"c", "l", "a", "u", "d", "e", "-", "4", "3", "-", "5", "0">>  \* claude-43-50
    }

\* the version markers list_claude_inference_profiles excludes
LegacyVersions == {
    <<"3", "-", "5">>,
    <<"c", "l", "a", "u", "d", "e", "-", "3", "-", "h", "a", "i", "k", "u">>,
    <<"c", "l", "a", "u", "d", "e", "-", "3", "-", "s", "o", "n", "n", "e", "t">>,
    <<"c", "l", "a", "u", "d", "e", "-", "3", "-", "o", "p", "u", "s">>
    }

FamilyMarker == <<"c", "l", "a", "u", "d", "e">>

ArnOf(id) == <<"arn:">> \o id

SysProfile(id) == [inferenceProfileId |-> id, inferenceProfileArn |-> ArnOf(id)]

\* the condition of the list comprehension
IsCurrentClaude(profile) ==
    LET id == Lower(profile.inferenceProfileId)
    IN  /\ Contains(id, FamilyMarker)
        /\ \A version \in LegacyVersions : ~Contains(id, version)

\* [x for x in seq if Test(x)], order kept
RECURSIVE SelectClaude(_)
SelectClaude(seq) ==
    IF seq = <<>> THEN <<>>
    ELSE IF IsCurrentClaude(Head(seq)) THEN <<Head(seq)>> \o SelectClaude(Tail(seq))
    ELSE SelectClaude(Tail(seq))

\* insertion of x into a list sorted by inferenceProfileId, after its equals
RECURSIVE InsertById(_, _)
InsertById(sorted, x) ==
    IF sorted = <<>> THEN <<x>>
    ELSE IF StrLess(x.inferenceProfileId, Head(sorted).inferenceProfileId)
         THEN <<x>> \o sorted
         ELSE <<Head(sorted)>> \o InsertById(Tail(sorted), x)

RECURSIVE SortedById(_)
SortedById(seq) ==
    IF seq = <<>> THEN <<>>
    ELSE InsertById(SortedById(SubSeq(seq, 1, Len(seq) - 1)), seq[Len(seq)])

\* the comprehension's result without the sorted() call
ClaudeProfilesUnsorted(summaries) == SelectClaude(summaries)

\* the value list_claude_inference_profiles returns for a listing
ClaudeProfiles(summaries) == SortedById(SelectClaude(summaries))

\* listings of at most MaxSys distinct system-defined profiles, in any order
RECURSIVE ListingsOf(_, _)
ListingsOf(ids, n) ==
    IF n = 0 THEN {<<>>}
    ELSE LET shorter == ListingsOf(ids, n - 1)
         IN  shorter \cup
             {Append(l, SysProfile(id)) :
                 l \in {m \in shorter : Len(m) = n - 1},
                 id \in ids}

SysListings ==
    {l \in ListingsOf(SysIds, MaxSys) :
        \A i, j \in 1..Len(l) : i # j => l[i] # l[j]}

(***************************************************************************)
(* The --tags argument.  It is read as a sequence of lexical tokens; a     *)
(* string literal keeps the quote it was written with.  Member values are  *)
(* string literals, as tag values are strings.                             *)
(***************************************************************************)
Punct(c) == [t |-> c, q |-> "", s |-> ""]

StrTok(q, s) == [t |-> "str", q |-> q, s |-> s]

NumTok(s) == [t |-> "num", q |-> "", s |-> s]

WordTok(s) == [t |-> "word", q |-> "", s |-> s]

\* dict[k] = v on an insertion-ordered dict, kept as a sequence of <<key, value>>
DictSet(d, k, v) ==
    IF \E i \in 1..Len(d) : d[i][1] = k
    THEN [i \in 1..Len(d) |-> IF d[i][1] = k THEN <<k, v>> ELSE d[i]]
    ELSE Append(d, <<k, v>>)

\* k in d
DictHas(d, k) == \E i \in 1..Len(d) : d[i][1] = k

\* d[k]
DictGet(d, k) == d[CHOOSE i \in 1..Len(d) : d[i][1] = k][2]

ParseFail == [ok |-> FALSE, kind |-> "", items |-> <<>>, lit |-> ""]

ParsedDict(items) == [ok |-> TRUE, kind |-> "dict", items |-> items, lit |-> ""]

ParsedScalar(tok) == [ok |-> TRUE, kind |-> tok.t, items |-> <<>>, lit |-> tok.s]

IsStrLit(tok, dialect) == tok.t = "str" /\ tok.q \in dialect.quotes

RECURSIVE ParseMember(_, _, _, _)
RECURSIVE ParseAfterMember(_, _, _, _)
\* a member  key : value  starting at token i
ParseMember(toks, i, acc, dialect) ==
    IF i + 2 > Len(toks) THEN ParseFail
    ELSE IF /\ IsStrLit(toks[i], dialect)
            /\ toks[i + 1].t = ":"
            /\ IsStrLit(toks[i + 2], dialect)
         THEN ParseAfterMember(toks, i + 3,
                               DictSet(acc, toks[i].s, toks[i + 2].s), dialect)
         ELSE ParseFail

\* after a member: the closing brace, or a comma and the next member
ParseAfterMember(toks, i, acc, dialect) ==
    IF i > Len(toks) THEN ParseFail
    ELSE IF toks[i].t = "}"
         THEN IF i = Len(toks) THEN ParsedDict(acc) ELSE ParseFail
    ELSE IF toks[i].t = ","
         THEN IF dialect.trailing /\ i + 1 <= Len(toks) /\ toks[i + 1].t = "}"
              THEN IF i + 1 = Len(toks) THEN ParsedDict(acc) ELSE ParseFail
              ELSE ParseMember(toks, i + 1, acc, dialect)
    ELSE ParseFail

ParseValue(toks, dialect) ==
    IF toks = <<>> THEN ParseFail
    ELSE IF Len(toks) = 1
         THEN IF IsStrLit(toks[1], dialect) \/ toks[1].t = "num"
              THEN ParsedScalar(toks[1])
              ELSE ParseFail
    ELSE IF toks[1].t = "{"
         THEN IF toks[2].t = "}"
              THEN IF Len(toks) = 2 THEN ParsedDict(<<>>) ELSE ParseFail
              ELSE ParseMember(toks, 2, <<>>, dialect)
    ELSE ParseFail

\* json.loads: double-quoted strings, no trailing comma; ok = FALSE is JSONDecodeError
JsonLoads(toks) == ParseValue(toks, [quotes |-> {"d"}, trailing |-> FALSE])

\* ast.literal_eval: either quote, trailing comma allowed; ok = FALSE is
\* ValueError or SyntaxError
LiteralEval(toks) == ParseValue(toks, [quotes |-> {"d", "s"}, trailing |-> TRUE])

Returned(value) == [outcome |-> "return", value |-> value, exc |-> ""]

TyperExit == [outcome |-> "exit", value |-> ParseFail, exc |-> ""]

Raised(exc) == [outcome |-> "raise", value |-> ParseFail, exc |-> exc]

\* parse_tags of admin_app.py, where ast is imported
admin_parse_tags(tags) ==
    IF JsonLoads(tags).ok THEN Returned(JsonLoads(tags))
    ELSE IF LiteralEval(tags).ok THEN Returned(LiteralEval(tags))
    ELSE TyperExit

\* parse_tags of client_app.py: the module does not import ast, so the
\* fallback's reference to ast raises NameError, which the handler for
\* (ValueError, SyntaxError) does not catch
client_parse_tags(tags) ==
    IF JsonLoads(tags).ok THEN Returned(JsonLoads(tags))
    ELSE Raised("NameError")

\* bool(tags_dict)
Truthy(value) ==
    IF value.kind = "dict" THEN value.items # <<>>
    ELSE value.lit \notin {"", "0"}

\* the comprehension with key and value exchanged
AwsTagsExchanged(items) ==
    [i \in 1..Len(items) |-> [key |-> items[i][2], value |-> items[i][1]]]

\* [{"key": k, "value": v} for k, v in tags_dict.items()]
AwsTags(items) == [i \in 1..Len(items) |-> [key |-> items[i][1], value |-> items[i][2]]]

\* {tag['key']: tag['value'] for tag in tags}
RECURSIVE DictFromTags(_)
DictFromTags(tagList) ==
    IF tagList = <<>> THEN <<>>
    ELSE LET last == tagList[Len(tagList)]
         IN  DictSet(DictFromTags(SubSeq(tagList, 1, Len(tagList) - 1)),
                     last.key, last.value)

\* the loop over tag_filters.items(): match stays True unless some required
\* key is absent or holds another value
RECURSIVE MatchFilters(_, _)
MatchFilters(filterItems, profile_tags) ==
    IF filterItems = <<>> THEN TRUE
    ELSE LET key == Head(filterItems)[1]
             value == Head(filterItems)[2]
         IN  IF ~DictHas(profile_tags, key) \/ DictGet(profile_tags, key) # value
             THEN FALSE
             ELSE MatchFilters(Tail(filterItems), profile_tags)

(***************************************************************************)
(* Inputs of the commands.                                                 *)
(***************************************************************************)
TagPairs == {<<"Team", "X">>, <<"Team", "Y">>, <<"DeveloperId", "d1">>}

RECURSIVE PairSeqs(_)
PairSeqs(n) ==
    IF n = 0 THEN {<<>>}
    ELSE LET shorter == PairSeqs(n - 1)
         IN  shorter \cup
             {Append(l, p) : l \in {m \in shorter : Len(m) = n - 1}, p \in TagPairs}

\* the text  {k1: v1, k2: v2}  with every string in quote q
RECURSIVE WriteMembers(_, _)
WriteMembers(pairs, q) ==
    IF pairs = <<>> THEN <<>>
    ELSE <<StrTok(q, Head(pairs)[1]), Punct(":"), StrTok(q, Head(pairs)[2])>>
         \o (IF Len(pairs) > 1 THEN <<Punct(",")>> ELSE <<>>)
         \o WriteMembers(Tail(pairs), q)

WriteObject(pairs, q) == <<Punct("{")>> \o WriteMembers(pairs, q) \o <<Punct("}")>>

\* --tags arguments that are no object literal in either syntax
MalformedTagArgs == {
    <<>>,
    <<WordTok("not"), WordTok("json")>>,
    <<Punct("{"), StrTok("d", "Team"), Punct("}")>>,
    <<Punct("{"), StrTok("d", "Team"), Punct(":"), StrTok("d", "X")>>
    }

\* --tags arguments that parse, but not to a mapping of the written members
OddTagArgs == {
    <<NumTok("5")>>,
    <<Punct("{"), StrTok("d", "Team"), Punct(":"), StrTok("d", "X"),
      Punct(","), Punct("}")>>
    }

TagArgs ==
    {WriteObject(pairs, q) : pairs \in PairSeqs(MaxTags), q \in {"d", "s"}}
    \cup MalformedTagArgs \cup OddTagArgs

NameArgs == {"test-profile", "other-profile"}

\* answers typed at the selection prompt
ChoiceAnswers == {
    <<>>, <<"1">>, <<"2">>, <<"3">>, <<"4">>, <<"0">>, <<"-", "1">>,
    <<"x">>, <<"1", "x">>, <<" ", "2", " ">>
    }

RegionAnswers == {<<>>, <<"eu-west-1">>}

AwsProfileAnswers == {<<"dev">>}

(***************************************************************************)
(* The provider's application profiles and the settings template.          *)
(***************************************************************************)
AppArn(n) == <<"arn:app/", Digits[n + 1]>>

Tag(k, v) == [key |-> k, value |-> v]

\* application profiles present before the first command
InitialStores == {
    <<>>,
    <<[inferenceProfileArn |-> AppArn(1),
       tags |-> <<Tag("Team", "X"), Tag("DeveloperId", "d1"), Tag("Env", "prod")>>,
       origin |-> "existing", given |-> <<>>]>>
    }

Lit(text) == [lit |-> text, ph |-> ""]

Hole(name) == [lit |-> "", ph |-> name]

\* template.settings.json: literal text around four placeholders
Template == <<
    Lit("{\"env\": {\"AWS_PROFILE\": \""), Hole("AWS_PROFILE"),
    Lit("\", \"AWS_REGION\": \""), Hole("AWS_REGION"),
    Lit("\", \"ANTHROPIC_MODEL\": \""), Hole("ANTHROPIC_MODEL"),
    Lit("\", \"ANTHROPIC_DEFAULT_HAIKU_MODEL\": \""), Hole("ANTHROPIC_DEFAULT_HAIKU_MODEL"),
    Lit("\"}}")
    >>

\* jinja2.Template(template_content).render(context): a placeholder becomes
\* its value in the context, or nothing when the context does not define it
RECURSIVE Render(_, _)
Render(template, context) ==
    IF template = <<>> THEN <<>>
    ELSE LET seg == Head(template)
         IN  (IF seg.ph = "" THEN <<seg.lit>>
              ELSE IF seg.ph \in DOMAIN context THEN context[seg.ph]
              ELSE <<>>)
             \o Render(Tail(template), context)

\* the context write_claude_settings renders with
SettingsContext(profile_arn, region, aws_profile) ==
    [AWS_PROFILE |-> aws_profile,
     ANTHROPIC_MODEL |-> profile_arn,
     ANTHROPIC_DEFAULT_HAIKU_MODEL |-> <<>>,
     AWS_REGION |-> region]

RenderSettings(profile_arn, region, aws_profile) ==
    Render(Template, SettingsContext(profile_arn, region, aws_profile))

(***************************************************************************)
(* State.                                                                  *)
(***************************************************************************)
VARIABLES
    runs,           \* command invocations started so far
    cmd,            \* "admin" (create-aip) or "client" (setup); "" before the first
    pc,             \* position of the running command; "exited" once it has ended
    name,           \* --name
    tags,           \* --tags, as tokens
    tags_dict,      \* value parse_tags returned
    aws_tags,       \* create_profile's aws_tags
    response,       \* inferenceProfileSummaries of the discovery call in progress
    idx,            \* position of the loop over the summaries (1-based)
    listFailed,     \* the discovery function left through its except clause
    profiles,       \* list a discovery function builds and returns
    choice,         \* text Prompt.ask returned at the selection prompt
    selected,       \* <<profile>> once one is selected, <<>> for None
    region,         \* answer to the region prompt
    aws_profile,    \* answer to the AWS profile prompt
    rendered,       \* rendered_content of write_claude_settings
    out,            \* messages printed by the running command
    exitCode,       \* process exit status, -1 while running
    calls,          \* provider calls issued by the running command, in order
    effects,        \* file-system operations done by the running command, in order
    store,          \* provider side: application profiles with their tags
    dirExists,      \* ~/.claude exists
    settingsFile,   \* ~/.claude/example.settings.json
    writes          \* write_claude_settings calls that have written the file so far

vars == <<runs, cmd, pc, name, tags, tags_dict, aws_tags, response, idx, listFailed,
          profiles, choice, selected, region, aws_profile, rendered, out, exitCode,
          calls, effects, store, dirExists, settingsFile, writes>>

NoFile == [exists |-> FALSE, content |-> <<>>]

FileWith(content) == [exists |-> TRUE, content |-> content]

\* a provider call; ok is set when the provider has answered
Call(op, type, arn, nm, tgs) ==
    [op |-> op, type |-> type, arn |-> arn, name |-> nm, tags |-> tgs, ok |-> TRUE]

\* the call answered with a ClientError
Failed(call) == [call EXCEPT !.ok = FALSE]

Init ==
    /\ runs = 0
    /\ cmd = ""
    /\ pc = "exited"
    /\ name = ""
    /\ tags = <<>>
    /\ tags_dict = ParseFail
    /\ aws_tags = <<>>
    /\ response = <<>>
    /\ idx = 1
    /\ listFailed = FALSE
    /\ profiles = <<>>
    /\ choice = <<>>
    /\ selected = <<>>
    /\ region = <<>>
    /\ aws_profile = <<>>
    /\ rendered = <<>>
    /\ out = <<>>
    /\ exitCode = 0
    /\ calls = <<>>
    /\ effects = <<>>
    /\ writes = 0
    /\ store \in InitialStores
    /\ \/ dirExists = FALSE /\ settingsFile = NoFile
       \/ dirExists = TRUE /\ settingsFile = FileWith(<<"earlier content">>)

\* a fresh process: nothing of the previous invocation but the provider's
\* profiles and the file system is left
Start(command, nameArg, tagsArg) ==
    /\ pc = "exited"
    /\ runs < MaxRuns
    /\ runs' = runs + 1
    /\ cmd' = command
    /\ pc' = "parse"
    /\ name' = nameArg
    /\ tags' = tagsArg
    /\ tags_dict' = ParseFail
    /\ aws_tags' = <<>>
    /\ response' = <<>>
    /\ idx' = 1
    /\ listFailed' = FALSE
    /\ profiles' = <<>>
    /\ choice' = <<>>
    /\ selected' = <<>>
    /\ region' = <<>>
    /\ aws_profile' = <<>>
    /\ rendered' = <<>>
    /\ out' = <<>>
    /\ exitCode' = -1
    /\ calls' = <<>>
    /\ effects' = <<>>
    /\ UNCHANGED <<store, dirExists, settingsFile, writes>>

\* admin create-aip --name N --tags T
StartAdmin == \E n \in NameArgs, t \in TagArgs : Start("admin", n, t)

\* client setup --tags T
StartClient == \E t \in TagArgs : Start("client", "", t)

\* typer.Exit() raised without its code argument: status 0
ExitWithDefaultCode(code, msgs) ==
    /\ pc' = "exited"
    /\ exitCode' = 0
    /\ out' = out \o msgs

\* print msgs, then raise typer.Exit(code=code) or, with code 0, return
ExitWith(code, msgs) ==
    /\ pc' = "exited"
    /\ exitCode' = code
    /\ out' = out \o msgs

\* an exception no handler catches: traceback, exit status 1
Crash(exc) == ExitWith(1, <<"Traceback (most recent call last)", exc>>)

Goto(label) ==
    /\ pc' = label
    /\ UNCHANGED <<out, exitCode>>

(***************************************************************************)
(* admin create-aip                                                        *)
(***************************************************************************)
\* tags_dict = parse_tags(tags)
AdminParse ==
    /\ cmd = "admin" /\ pc = "parse"
    /\ LET r == admin_parse_tags(tags)
       IN  IF r.outcome = "return"
           THEN /\ tags_dict' = r.value
                /\ Goto("validate")
           ELSE /\ ExitWith(1, <<"Error: Tags must be a valid JSON string">>)
                /\ UNCHANGED tags_dict
    /\ UNCHANGED <<runs, cmd, name, tags, aws_tags, response, idx, listFailed, profiles,
                   choice, selected, region, aws_profile, rendered, calls, store,
                   dirExists, settingsFile, effects, writes>>

\* if not tags_dict: exit; aws_tags = [...].  The --tags text is not read
\* again after this point.
AdminValidate ==
    /\ cmd = "admin" /\ pc = "validate"
    /\ IF ~Truthy(tags_dict)
       THEN /\ ExitWith(1, <<"Error: Tags must not be empty.">>)
            /\ UNCHANGED aws_tags
       ELSE IF tags_dict.kind # "dict"
       THEN /\ Crash("AttributeError")
            /\ UNCHANGED aws_tags
       ELSE /\ aws_tags' = AwsTags(tags_dict.items)
            /\ Goto("discover")
    /\ tags' = <<>>
    /\ UNCHANGED <<runs, cmd, name, tags_dict, response, idx, listFailed, profiles,
                   choice, selected, region, aws_profile, rendered, calls, store,
                   dirExists, settingsFile, effects, writes>>

ListCall(type) == Call("list_inference_profiles", type, <<>>, "", <<>>)

TagsCall(arn) == Call("list_tags_for_resource", "", arn, "", <<>>)

\* what list_claude_inference_profiles returns for a provider answer
ListClaudeResult(summaries) == ClaudeProfiles(summaries)

\* profiles = list_claude_inference_profiles(), first statement of
\* prompt_for_inference_profile
AdminDiscover ==
    /\ cmd = "admin" /\ pc = "discover"
    /\ \/ \E summaries \in SysListings :
            /\ calls' = Append(calls, ListCall("SYSTEM_DEFINED"))
            /\ response' = summaries
            /\ profiles' = ListClaudeResult(summaries)
            /\ listFailed' = FALSE
            /\ Goto("select")
       \/ /\ calls' = Append(calls, Failed(ListCall("SYSTEM_DEFINED")))
          /\ response' = <<>>
          /\ profiles' = <<>>
          /\ listFailed' = TRUE
          /\ pc' = "select"
          /\ out' = Append(out, "Error listing inference profiles")
          /\ UNCHANGED exitCode
    /\ UNCHANGED <<runs, cmd, name, tags, tags_dict, aws_tags, idx, choice, selected,
                   region, aws_profile, rendered, store, dirExists, settingsFile,
                   effects, writes>>

\* a range test that counts from zero
SelectFromZero(text, shown) ==
    LET n == PyInt(text)
    IN  IF ~n.ok THEN [sel |-> <<>>, err |-> "Invalid input. Please enter a number."]
        ELSE IF 0 <= n.val /\ n.val < Len(shown)
             THEN [sel |-> <<shown[n.val + 1]>>, err |-> ""]
             ELSE [sel |-> <<>>, err |-> "Invalid choice."]

\* the selection both commands make: int(choice), then the range test
SelectByChoice(text, shown) ==
    LET n == PyInt(text)
    IN  IF ~n.ok THEN [sel |-> <<>>, err |-> "Invalid input. Please enter a number."]
        ELSE IF 1 <= n.val /\ n.val <= Len(shown)
             THEN [sel |-> <<shown[n.val]>>, err |-> ""]
             ELSE [sel |-> <<>>, err |-> "Invalid choice."]

\* rest of prompt_for_inference_profile, and create_profile's test of its result
AdminSelect ==
    /\ cmd = "admin" /\ pc = "select"
    /\ IF profiles = <<>>
       THEN /\ ExitWith(1, <<"No profile selected. Exiting.">>)
            /\ UNCHANGED <<choice, selected>>
       ELSE \E answer \in ChoiceAnswers :
            LET text == PromptAsk(answer, <<"1">>)
                r == SelectByChoice(text, profiles)
            IN  /\ choice' = text
                /\ selected' = r.sel
                /\ IF r.sel = <<>>
                   THEN ExitWith(1, <<r.err, "No profile selected. Exiting.">>)
                   ELSE Goto("create")
    /\ response' = <<>>
    /\ UNCHANGED <<runs, cmd, name, tags, tags_dict, aws_tags, idx, listFailed, profiles,
                   region, aws_profile, rendered, calls, store, dirExists, settingsFile,
                   effects, writes>>

\* a create request that copies from the profile id instead of its ARN
CreateRequestById(nm, source, tgs) ==
    Call("create_inference_profile", "", source.inferenceProfileId, nm, tgs)

\* the arguments of bedrock_client.create_inference_profile
CreateRequest(nm, source, tgs) ==
    Call("create_inference_profile", "", source.inferenceProfileArn, nm, tgs)

\* provider side: the application profile a create request makes, the n-th
\* of the account, holding the tags of the request; given records the tag
\* mapping of the command that asked for it
Created(n, request, mapping) ==
    [inferenceProfileArn |-> AppArn(n), tags |-> request.tags, origin |-> "create-aip",
     given |-> mapping]

\* the create call and its outcome
AdminCreate ==
    /\ cmd = "admin" /\ pc = "create"
    /\ \/ /\ calls' = Append(calls, CreateRequest(name, selected[1], aws_tags))
          /\ store' = Append(store, Created(Len(store) + 1,
                                            CreateRequest(name, selected[1], aws_tags),
                                            tags_dict.items))
          /\ ExitWith(0, <<"Application inference profile successfully created.">>)
       \/ /\ calls' = Append(calls, Failed(CreateRequest(name, selected[1], aws_tags)))
          /\ UNCHANGED store
          /\ ExitWith(1, <<"Error creating application inference profile">>)
    /\ UNCHANGED <<runs, cmd, name, tags, tags_dict, aws_tags, response, idx, listFailed,
                   profiles, choice, selected, region, aws_profile, rendered,
                   dirExists, settingsFile, effects, writes>>

(***************************************************************************)
(* client setup                                                            *)
(***************************************************************************)
\* tags_dict = parse_tags(tags)
ClientParse ==
    /\ cmd = "client" /\ pc = "parse"
    /\ LET r == client_parse_tags(tags)
       IN  IF r.outcome = "return"
           THEN /\ tags_dict' = r.value
                /\ Goto("validate")
           ELSE IF r.outcome = "exit"
           THEN /\ ExitWith(1, <<"Error: Tags must be a valid JSON string">>)
                /\ UNCHANGED tags_dict
           ELSE /\ Crash(r.exc)
                /\ UNCHANGED tags_dict
    /\ UNCHANGED <<runs, cmd, name, tags, aws_tags, response, idx, listFailed, profiles,
                   choice, selected, region, aws_profile, rendered, calls, store,
                   dirExists, settingsFile, effects, writes>>

\* if not tags_dict: exit
ClientValidate ==
    /\ cmd = "client" /\ pc = "validate"
    /\ IF ~Truthy(tags_dict)
       THEN ExitWith(1, <<"Error: Tags must not be empty.">>)
       ELSE Goto("list")
    /\ tags' = <<>>
    /\ UNCHANGED <<runs, cmd, name, tags_dict, aws_tags, response, idx, listFailed,
                   profiles, choice, selected, region, aws_profile, rendered, calls,
                   store, dirExists, settingsFile, effects, writes>>

\* the summaries the provider lists for typeEquals="APPLICATION"
Summaries(st) == [i \in 1..Len(st) |-> [inferenceProfileArn |-> st[i].inferenceProfileArn]]

\* the tags the provider holds for a resource ARN
TagsForResource(st, arn) ==
    st[CHOOSE i \in 1..Len(st) : st[i].inferenceProfileArn = arn].tags

\* list_application_inference_profiles up to the loop: the listing call
ClientList ==
    /\ cmd = "client" /\ pc = "list"
    /\ profiles' = <<>>
    /\ idx' = 1
    /\ \/ /\ calls' = Append(calls, ListCall("APPLICATION"))
          /\ response' = Summaries(store)
          /\ listFailed' = FALSE
          /\ Goto(IF store = <<>> THEN "check" ELSE "tags")
       \/ /\ calls' = Append(calls, Failed(ListCall("APPLICATION")))
          /\ response' = <<>>
          /\ listFailed' = TRUE
          /\ pc' = "check"
          /\ out' = Append(out, "Error listing application inference profiles")
          /\ UNCHANGED exitCode
    /\ UNCHANGED <<runs, cmd, name, tags, tags_dict, aws_tags, choice, selected, region,
                   aws_profile, rendered, store, dirExists, settingsFile,
                   effects, writes>>

\* the loop body taking a profile only when its tags are exactly the filter
AfterSummaryExactTags(found, summary, tagList, filters) ==
    IF MatchFilters(filters, DictFromTags(tagList))
       /\ Len(DictFromTags(tagList)) = Len(filters)
    THEN Append(found, [inferenceProfileArn |-> summary.inferenceProfileArn,
                        tags |-> DictFromTags(tagList)])
    ELSE found

\* profiles after the loop body has handled a summary whose tags were fetched
AfterSummary(found, summary, tagList, filters) ==
    IF MatchFilters(filters, DictFromTags(tagList))
    THEN Append(found, [inferenceProfileArn |-> summary.inferenceProfileArn,
                        tags |-> DictFromTags(tagList)])
    ELSE found

\* a handler inside the loop that skips the profile and keeps the matches
AfterFetchErrorKeeping(found) == found

\* profiles after the tag fetch for a summary raised ClientError: the except
\* clause around the whole loop returns []
AfterFetchError(found) == <<>>

\* one pass of the loop over the summaries: fetch the tags, test, append
ClientFetchTags ==
    /\ cmd = "client" /\ pc = "tags" /\ idx <= Len(response)
    /\ \/ IF tags_dict.kind # "dict"
          THEN /\ calls' = Append(calls, TagsCall(response[idx].inferenceProfileArn))
               /\ Crash("AttributeError")
               /\ UNCHANGED <<profiles, idx, listFailed>>
          ELSE /\ calls' = Append(calls, TagsCall(response[idx].inferenceProfileArn))
               /\ profiles' = AfterSummary(profiles, response[idx],
                       TagsForResource(store, response[idx].inferenceProfileArn),
                       tags_dict.items)
               /\ idx' = idx + 1
               /\ Goto(IF idx = Len(response) THEN "check" ELSE "tags")
               /\ UNCHANGED listFailed
       \/ /\ calls' = Append(calls, Failed(TagsCall(response[idx].inferenceProfileArn)))
          /\ profiles' = AfterFetchError(profiles)
          /\ listFailed' = TRUE
          /\ pc' = "check"
          /\ out' = Append(out, "Error listing application inference profiles")
          /\ UNCHANGED <<idx, exitCode>>
    /\ UNCHANGED <<runs, cmd, name, tags, tags_dict, aws_tags, response, choice, selected,
                   region, aws_profile, rendered, store, dirExists, settingsFile,
                   effects, writes>>

\* if not profiles: exit
ClientCheck ==
    /\ cmd = "client" /\ pc = "check"
    /\ IF profiles = <<>>
       THEN ExitWith(1, <<"No application inference profiles found matching the user's tags.">>)
       ELSE Goto("select")
    /\ UNCHANGED <<runs, cmd, name, tags, tags_dict, aws_tags, response, idx, listFailed,
                   profiles, choice, selected, region, aws_profile, rendered, calls,
                   store, dirExists, settingsFile, effects, writes>>

\* display_profile_details: the ARN it returns
display_profile_details(profile) == profile.inferenceProfileArn

\* the selection prompt of client_setup
ClientSelect ==
    /\ cmd = "client" /\ pc = "select"
    /\ \E answer \in ChoiceAnswers :
         LET text == PromptAsk(answer, <<"1">>)
             r == SelectByChoice(text, profiles)
         IN  /\ choice' = text
             /\ selected' = r.sel
             /\ IF r.sel = <<>>
                THEN ExitWith(1, <<r.err>>)
                ELSE Goto("ask")
    /\ response' = <<>>
    /\ UNCHANGED <<runs, cmd, name, tags, tags_dict, aws_tags, idx, listFailed, profiles,
                   region, aws_profile, rendered, calls, store, dirExists, settingsFile,
                   effects, writes>>

\* the region and AWS profile prompts
ClientAsk ==
    /\ cmd = "client" /\ pc = "ask"
    /\ \E r \in RegionAnswers, a \in AwsProfileAnswers :
         /\ region' = PromptAsk(r, <<"us-east-1">>)
         /\ aws_profile' = a
    /\ Goto("mkdir")
    /\ UNCHANGED <<runs, cmd, name, tags, tags_dict, aws_tags, response, idx, listFailed,
                   profiles, choice, selected, rendered, calls, store, dirExists,
                   settingsFile, effects, writes>>

\* write_claude_settings: if not os.path.exists(claude_dir): os.makedirs(claude_dir)
WriteMkdir ==
    /\ cmd = "client" /\ pc = "mkdir"
    /\ \/ /\ dirExists' = TRUE
          /\ effects' = IF dirExists THEN effects ELSE Append(effects, "makedirs")
          /\ Goto("render")
       \/ \* os.makedirs raises; nothing around it catches
          /\ ~dirExists
          /\ UNCHANGED <<dirExists, effects>>
          /\ Crash("OSError")
    /\ UNCHANGED <<runs, cmd, name, tags, tags_dict, aws_tags, response, idx, listFailed,
                   profiles, choice, selected, region, aws_profile, rendered, calls,
                   store, settingsFile, writes>>

\* the settings file had it been opened for writing ahead of the template
OpenedAheadOfTemplate(old) == FileWith(<<>>)

\* the settings file when open(template_path, 'r') raises: the handler is
\* reached before open(settings_file, 'w'), so the file is as it was
TemplateUnreadable(old) == old

\* write_claude_settings: read the template and render it
WriteRender ==
    /\ cmd = "client" /\ pc = "render"
    /\ \/ /\ rendered' = RenderSettings(display_profile_details(selected[1]),
                                        region, aws_profile)
          /\ effects' = Append(effects, "read template")
          /\ UNCHANGED settingsFile
          /\ Goto("write")
       \/ \* open(template_path) raises
          /\ settingsFile' = TemplateUnreadable(settingsFile)
          /\ UNCHANGED <<rendered, effects>>
          /\ ExitWith(1, <<"Error reading template or writing settings">>)
    /\ UNCHANGED <<runs, cmd, name, tags, tags_dict, aws_tags, response, idx, listFailed,
                   profiles, choice, selected, region, aws_profile, calls, store,
                   dirExists, writes>>

\* the file had it been opened for appending
WrittenAppending(old, content) == FileWith(old.content \o content)

\* the file after open(settings_file, 'w') and f.write(rendered_content)
Written(old, content) == FileWith(content)

\* write_claude_settings: open the settings file for writing and write it
WriteFile ==
    /\ cmd = "client" /\ pc = "write"
    /\ \/ /\ settingsFile' = Written(settingsFile, rendered)
          /\ effects' = effects \o <<"open for writing", "write">>
          /\ writes' = writes + 1
          /\ ExitWith(0, <<"Settings written", "Setup Complete">>)
       \/ \* open() raises: the file is as it was
          /\ UNCHANGED <<settingsFile, effects, writes>>
          /\ ExitWith(1, <<"Error reading template or writing settings">>)
       \/ \* write() raises after open() truncated the file
          /\ settingsFile' = FileWith(<<>>)
          /\ effects' = Append(effects, "open for writing")
          /\ UNCHANGED writes
          /\ ExitWith(1, <<"Error reading template or writing settings">>)
    /\ UNCHANGED <<runs, cmd, name, tags, tags_dict, aws_tags, response, idx, listFailed,
                   profiles, choice, selected, region, aws_profile, rendered, calls,
                   store, dirExists>>

Next ==
    \/ StartAdmin
    \/ AdminParse
    \/ AdminValidate
    \/ AdminDiscover
    \/ AdminSelect
    \/ AdminCreate
    \/ StartClient
    \/ ClientParse
    \/ ClientValidate
    \/ ClientList
    \/ ClientFetchTags
    \/ ClientCheck
    \/ ClientSelect
    \/ ClientAsk
    \/ WriteMkdir
    \/ WriteRender
    \/ WriteFile

Spec == Init /\ [][Next]_vars

(***************************************************************************)
(* Properties.                                                             *)
(***************************************************************************)
Elems(seq) == {seq[i] : i \in 1..Len(seq)}

\* the decimal numeral of k, for -9 <= k <= 9
Numeral(k) == IF k < 0 THEN <<"-", Digits[1 - k]>> ELSE <<Digits[k + 1]>>

\* a and b are the same letter, whatever the case
SameLetter(a, b) ==
    \/ a = b
    \/ \E i \in 1..Len(Upper) : {a, b} = {Upper[i], Lowered[i]}

\* sub occurs in s, case ignored
OccursIgnoringCase(s, sub) ==
    \E i \in 0..(Len(s) - Len(sub)) :
        \A j \in 1..Len(sub) : SameLetter(s[i + j], sub[j])

\* a tag list holds every required key with exactly the required value
TagsSatisfy(tagList, required) ==
    \A f \in Elems(required) :
        \E t \in Elems(tagList) : t.key = f[1] /\ t.value = f[2]

Listed(arn, found) == \E p \in Elems(found) : p.inferenceProfileArn = arn

\* the whole of list_application_inference_profiles of admin_app.py (the same
\* statements as the client's, the listing asked with maxResults=250) when
\* no provider call fails
RECURSIVE admin_list_application_inference_profiles(_, _)
admin_list_application_inference_profiles(tag_filters, st) ==
    IF st = <<>> THEN <<>>
    ELSE AfterSummary(
             admin_list_application_inference_profiles(tag_filters,
                                                       SubSeq(st, 1, Len(st) - 1)),
             st[Len(st)], st[Len(st)].tags, tag_filters)

\* the client's discovery function has returned from its try block
ClientListed == cmd = "client" /\ pc = "check" /\ ~listFailed

\* C1: when tag-filtered discovery returns the profiles it found, a profile the
\* provider listed is in the result if and only if its attached tags hold
\* every key of the filter with exactly the filter's value; the result keeps
\* the provider's order and carries each profile's tags.
C1_FilterIsSupersetMatch ==
    ClientListed /\ tags_dict.kind = "dict" =>
        /\ \A p \in Elems(store) :
              Listed(p.inferenceProfileArn, profiles)
                  <=> TagsSatisfy(p.tags, tags_dict.items)
        /\ \A i, j \in 1..Len(profiles) :
              i < j => \E m, n \in 1..Len(store) :
                          /\ m < n
                          /\ store[m].inferenceProfileArn = profiles[i].inferenceProfileArn
                          /\ store[n].inferenceProfileArn = profiles[j].inferenceProfileArn
        /\ \A p \in Elems(admin_list_application_inference_profiles(tags_dict.items, store)) :
              \E q \in Elems(store) :
                  /\ q.inferenceProfileArn = p.inferenceProfileArn
                  /\ TagsSatisfy(q.tags, tags_dict.items)
        /\ \A q \in Elems(store) :
              TagsSatisfy(q.tags, tags_dict.items) =>
                  Listed(q.inferenceProfileArn,
                         admin_list_application_inference_profiles(tags_dict.items, store))

\* a listing of two profiles in which one with more tags than the filter is
\* kept and one with another value for a required key is dropped
C1_Witness ==
    /\ ClientListed
    /\ Len(store) = 2
    /\ Len(profiles) = 1
    /\ Len(tags_dict.items) = 1
    /\ Len(profiles[1].tags) > 1
    /\ \E p \in Elems(store) :
          \E t \in Elems(p.tags) : t.key = tags_dict.items[1][1]
                                   /\ t.value # tags_dict.items[1][2]

\* a tag fetch has failed in the client's discovery function
TagFetchFailed ==
    /\ cmd = "client" /\ pc = "check"
    /\ calls # <<>>
    /\ calls[Len(calls)].op = "list_tags_for_resource"
    /\ ~calls[Len(calls)].ok

\* C6 as stated: a failed tag fetch for one profile leaves every other profile
\* whose tags satisfy the filter in the result.
C6_PerItemFailureKeepsOthers ==
    TagFetchFailed =>
        \A i \in 1..Len(response) :
            (i # idx /\ TagsSatisfy(TagsForResource(store, response[i].inferenceProfileArn),
                                    tags_dict.items))
                => Listed(response[i].inferenceProfileArn, profiles)

\* C6 amended: a failed tag fetch ends the whole listing: the function returns
\* the empty list, whatever it had matched, and fetches no further tags.
C6_FetchFailureEmptiesListing ==
    TagFetchFailed =>
        /\ profiles = <<>>
        /\ listFailed
        /\ Cardinality({i \in 1..Len(calls) : calls[i].op = "list_tags_for_resource"}) = idx
        /\ idx <= Len(response)

\* the fetch fails for the second profile after the first one matched, with
\* nothing left to examine; and for the first with a second one left
C6_Witness ==
    /\ TagFetchFailed
    /\ idx = 2
    /\ Len(response) = 2
    /\ TagsSatisfy(store[1].tags, tags_dict.items)

\* the admin's discovery function has returned the provider's listing
ClaudeListed == cmd = "admin" /\ pc = "select" /\ ~listFailed

\* the identifier names a Claude model and carries no legacy version marker
WantedClaude(id) ==
    /\ OccursIgnoringCase(id, FamilyMarker)
    /\ \A legacy \in LegacyVersions : ~OccursIgnoringCase(id, legacy)

\* C9: list_claude_inference_profiles returns exactly the listed profiles whose
\* identifier contains "claude" and none of the legacy markers, case ignored,
\* in ascending order of identifier.
C9_ClaudeDiscovery ==
    ClaudeListed =>
        /\ Elems(profiles) = {p \in Elems(response) : WantedClaude(p.inferenceProfileId)}
        /\ Len(profiles) = Cardinality(Elems(profiles))
        /\ \A i, j \in 1..Len(profiles) :
              i < j => StrLess(profiles[i].inferenceProfileId,
                               profiles[j].inferenceProfileId)

\* two wanted profiles listed in descending order come back ascending
C9_Witness ==
    /\ ClaudeListed
    /\ Len(response) = 2
    /\ Len(profiles) = 2
    /\ profiles[1] = response[2]
    /\ \E p \in Elems(profiles) : p.inferenceProfileId[1] = "C"

\* a selection prompt has been answered in the running command
Answered == choice # <<>>

\* the text is no number: it holds a character that is no digit, sign or blank
NonNumeric(text) == \E i \in 1..Len(text) : ~IsDigit(text[i]) /\ text[i] \notin {"-", "+", " "}

IsCreate(call) == call.op = "create_inference_profile"

\* the selection was refused: an error message is the last thing printed (in
\* the admin command, before its closing "No profile selected" line), nothing
\* is selected, the command has ended with status 1 and has created nothing
Rejected ==
    /\ selected = <<>>
    /\ pc = "exited"
    /\ exitCode = 1
    /\ \E i \in 1..Len(out) :
          /\ out[i] \in {"Invalid choice.", "Invalid input. Please enter a number."}
          /\ i = IF cmd = "admin" THEN Len(out) - 1 ELSE Len(out)
    /\ \A c \in Elems(calls) : ~IsCreate(c)
    /\ effects = <<>>

\* C2: in both commands, with N profiles displayed, the answer k with
\* 1 <= k <= N selects the k-th displayed profile, and the answers 0, N+1, a
\* negative number and a text that is no number are refused with an error
\* message, select nothing and end the command with status 1.
C2_SelectionValidation ==
    Answered =>
        /\ \A k \in -2..5 :
              choice = Numeral(k) =>
                  IF 1 <= k /\ k <= Len(profiles)
                  THEN selected = <<profiles[k]>>
                  ELSE Rejected
        /\ NonNumeric(choice) => Rejected
        /\ Rejected \/ (selected # <<>> /\ selected[1] \in Elems(profiles))

\* the client picks the second of two displayed profiles
C2_Witness ==
    /\ cmd = "client"
    /\ choice = <<"2">>
    /\ Len(profiles) = 2
    /\ selected = <<profiles[2]>>
    /\ profiles[1] # profiles[2]
    /\ pc = "ask"

\* the running admin command has issued its create call
Creates == {i \in 1..Len(calls) : IsCreate(calls[i])}

\* C3: an admin run with a non-empty tag mapping and an in-range selection k
\* issues exactly one create call, after the listing call and the selection;
\* the call copies from the ARN of the k-th profile of the sorted list, is
\* named by --name, and carries the mapping's pairs as {key, value} records in
\* the mapping's order.  No other admin run issues a create call.
C3_SingleCreateCall ==
    cmd = "admin" =>
        /\ (pc = "exited" /\ selected # <<>>) => Cardinality(Creates) = 1
        /\ (pc # "exited" \/ selected = <<>>) => Creates = {}
        /\ \A i \in Creates :
              /\ i = Len(calls)
              /\ \E j \in 1..(i - 1) :
                    calls[j].op = "list_inference_profiles"
                    /\ calls[j].type = "SYSTEM_DEFINED" /\ calls[j].ok
              /\ Truthy(tags_dict)
              /\ \A k \in 1..Len(profiles) :
                    choice = Numeral(k) => calls[i].arn = profiles[k].inferenceProfileArn
              /\ calls[i].arn = selected[1].inferenceProfileArn
              /\ \E k \in 1..Len(profiles) : profiles[k] = selected[1]
              /\ calls[i].name = name
              /\ Len(calls[i].tags) = Len(tags_dict.items)
              /\ \A m \in 1..Len(tags_dict.items) :
                    calls[i].tags[m] = [key |-> tags_dict.items[m][1],
                                        value |-> tags_dict.items[m][2]]

\* a run that selected the second listed profile and created a profile with two tags
C3_Witness ==
    /\ cmd = "admin" /\ pc = "exited" /\ exitCode = 0
    /\ choice = <<"2">>
    /\ Cardinality(Creates) = 1
    /\ Len(calls[Len(calls)].tags) = 2
    /\ calls[Len(calls)].tags[1].key = "DeveloperId"

\* the running command ended inside parse_tags
EndedInParse == runs > 0 /\ pc = "exited" /\ tags_dict = ParseFail

\* the running command is past parse_tags, --tags still at hand
Parsed == runs > 0 /\ (pc = "validate" \/ EndedInParse)

\* the command reported msg, as its only output, and ended with status 1
\* before any provider call or file operation
RefusedWith(msg) ==
    /\ pc = "exited"
    /\ exitCode = 1
    /\ out = <<msg>>
    /\ calls = <<>>
    /\ effects = <<>>

\* C4 as stated: in both commands a malformed tag string, an empty tag
\* mapping and a non-numeric or out-of-range selection are each reported with
\* their own message and end the command with status 1, no create call issued
\* and no file operation done; for the first two no provider call is made.
C4_UserErrorsHandled ==
    /\ (EndedInParse /\ tags \in MalformedTagArgs)
          => RefusedWith("Error: Tags must be a valid JSON string")
    /\ (Parsed /\ tags \in MalformedTagArgs) => EndedInParse
    /\ (runs > 0 /\ pc # "validate" /\ tags_dict = ParsedDict(<<>>))
          => RefusedWith("Error: Tags must not be empty.")
    /\ Answered =>
          /\ NonNumeric(choice) => Rejected
          /\ \A k \in -2..5 :
                (choice = Numeral(k) /\ (k < 1 \/ k > Len(profiles))) => Rejected

\* the keys written in a member list
KeysOf(pairs) == {pairs[i][1] : i \in 1..Len(pairs)}

\* the value the member list gives a key: that of its last member for the key
ValueOf(pairs, k) ==
    pairs[CHOOSE i \in 1..Len(pairs) :
              /\ pairs[i][1] = k
              /\ \A j \in (i + 1)..Len(pairs) : pairs[j][1] # k][2]

\* the dict holds the mapping the member list writes
SameMapping(items, pairs) ==
    /\ {items[i][1] : i \in 1..Len(items)} = KeysOf(pairs)
    /\ Len(items) = Cardinality(KeysOf(pairs))
    /\ \A i \in 1..Len(items) : items[i][2] = ValueOf(pairs, items[i][1])

\* parse_tags gave what section 4.6 asks for the --tags text
ParsedAsSpecified ==
    /\ \A pairs \in PairSeqs(MaxTags), q \in {"d", "s"} :
          tags = WriteObject(pairs, q) =>
              /\ pc = "validate"
              /\ tags_dict.kind = "dict"
              /\ SameMapping(tags_dict.items, pairs)
    /\ tags \in MalformedTagArgs =>
          /\ EndedInParse
          /\ exitCode = 1
          /\ out = <<"Error: Tags must be a valid JSON string">>

\* C5 as stated: in the admin and in the client command alike, a JSON object
\* parses to its mapping, a single-quoted dictionary literal parses to the
\* same mapping through the fallback, and a text neither parser accepts ends
\* the command with the 'Tags must be a valid JSON string' error and status 1.
C5_ParserSameInBothCommands == Parsed => ParsedAsSpecified

\* the admin command's parse_tags alone
AdminParserAsSpecified == (Parsed /\ cmd = "admin") => ParsedAsSpecified

\* every step of a started command; starting one is up to the user
Step ==
    \/ AdminParse \/ AdminValidate \/ AdminDiscover \/ AdminSelect \/ AdminCreate
    \/ ClientParse \/ ClientValidate \/ ClientList \/ ClientFetchTags \/ ClientCheck
    \/ ClientSelect \/ ClientAsk \/ WriteMkdir \/ WriteRender \/ WriteFile

\* a started command keeps running: provider calls return and prompts are answered
FairSpec == Spec /\ WF_vars(Step)

Ended == runs > 0 /\ pc = "exited"

\* the command did what it is for
Completed ==
    IF cmd = "admin"
    THEN \E c \in Elems(calls) : IsCreate(c) /\ c.ok
    ELSE "write" \in Elems(effects) /\ settingsFile.exists

ProviderFailure == \E c \in Elems(calls) : ~c.ok

ValidationFailure ==
    \/ EndedInParse
    \/ ~Truthy(tags_dict)
    \/ (Answered /\ selected = <<>>)

NothingFound ==
    out[Len(out)] \in {"No profile selected. Exiting.",
                       "No application inference profiles found matching the user's tags."}

\* the status rule of section 6 at the end of a command
StatusRule ==
    Ended =>
        /\ exitCode \in {0, 1}
        /\ exitCode = 0 <=> Completed
        /\ (ProviderFailure \/ ValidationFailure) => exitCode = 1
        /\ (\E c \in Elems(calls) : c.op = "list_inference_profiles" /\ ~c.ok) =>
              /\ profiles = <<>>
              /\ NothingFound
              /\ "Traceback (most recent call last)" \notin Elems(out)
        /\ \A i \in 1..Len(calls) :
              (IsCreate(calls[i]) /\ ~calls[i].ok) =>
                  i = Len(calls) /\ Cardinality(Creates) = 1

\* C7: every started command ends; it ends with status 1 whenever a validation
\* or provider failure occurred and with status 0 exactly when it completed
\* its work; a failed listing yields an empty result, a "nothing found" report
\* and status 1, no crash; a failed create ends the command at once, unretried.
C7_RunsEndWithStatus == []StatusRule /\ ((pc # "exited") ~> (pc = "exited"))

\* an admin command whose listing call failed has ended with status 1
C7_Witness ==
    /\ Ended /\ cmd = "admin" /\ exitCode = 1
    /\ \E c \in Elems(calls) : c.op = "list_inference_profiles" /\ ~c.ok
    /\ out = <<"Error listing inference profiles", "No profile selected. Exiting.">>

\* the template's text with the three values in their places and nothing for
\* the haiku model
ExpectedSettings(arn, reg, prof) ==
    <<Template[1].lit>> \o prof \o <<Template[3].lit>> \o reg
    \o <<Template[5].lit>> \o arn \o <<Template[7].lit, Template[9].lit>>

\* C8: once write_claude_settings has written, the settings file holds the
\* template rendered with the ARN, region and AWS profile of that call, the
\* haiku placeholder empty, and nothing else, whatever the file held before;
\* and the call fails on its directory only if the directory was absent.
C8_SettingsOverwritten ==
    /\ (cmd = "client" /\ Ended /\ exitCode = 0) =>
          /\ settingsFile = FileWith(ExpectedSettings(selected[1].inferenceProfileArn,
                                                      region, aws_profile))
          /\ region \in {<<"us-east-1">>, <<"eu-west-1">>}
          /\ dirExists
    /\ (Ended /\ "OSError" \in Elems(out)) => ~dirExists /\ effects = <<>>

\* the second command of a behaviour to write the file, after one that wrote
\* it for the default region
C8_Witness ==
    /\ cmd = "client" /\ Ended /\ exitCode = 0
    /\ writes = 2
    /\ region = <<"eu-west-1">>

\* C10: a profile created by create-aip with tag mapping T is listed by a later
\* client discovery with filter F exactly when every key of F is in T with the
\* same value; the client command issues no create call; and the ARN in the
\* settings file it writes is that of the profile at the selected position of
\* the filtered list.
C10_RoundTrip ==
    /\ (ClientListed /\ tags_dict.kind = "dict") =>
          \A p \in Elems(store) :
              p.origin = "create-aip" =>
                  (Listed(p.inferenceProfileArn, profiles)
                      <=> \A f \in Elems(tags_dict.items) : f \in Elems(p.given))
    /\ cmd = "client" => \A c \in Elems(calls) : ~IsCreate(c)
    /\ (cmd = "client" /\ Ended /\ exitCode = 0) =>
          \A k \in 1..Len(profiles) :
              choice = Numeral(k) =>
                  /\ Contains(settingsFile.content, profiles[k].inferenceProfileArn)
                  /\ \A q \in Elems(store) :
                        q.inferenceProfileArn # profiles[k].inferenceProfileArn =>
                            ~Contains(settingsFile.content, q.inferenceProfileArn)

\* the client has written the ARN of a profile create-aip made with two tags,
\* found with a filter on one of them and picked as the second of the list
C10_Witness ==
    /\ cmd = "client" /\ Ended /\ exitCode = 0
    /\ choice = <<"2">>
    /\ Len(tags_dict.items) = 1
    /\ \E p \in Elems(store) :
          /\ p.origin = "create-aip"
          /\ p.inferenceProfileArn = selected[1].inferenceProfileArn
          /\ Len(p.given) = 2

(***************************************************************************)
(* write_claude_settings when the template cannot be read                  *)
(***************************************************************************)
\* the client command ended inside write_claude_settings, past the directory
\* step, without having read the template
TemplateUnread ==
    /\ cmd = "client" /\ Ended
    /\ aws_profile # <<>>
    /\ "OSError" \notin Elems(out)
    /\ "read template" \notin Elems(effects)

\* every opening of the settings file comes after the template was read and
\* rendered with the values of the call
OpenedAfterRender ==
    \A i \in 1..Len(effects) :
        effects[i] = "open for writing" =>
            /\ \E j \in 1..(i - 1) : effects[j] = "read template"
            /\ rendered = RenderSettings(display_profile_details(selected[1]),
                                         region, aws_profile)

\* how a call that could not read its template has ended
EndedOnTemplate ==
    TemplateUnread =>
        /\ exitCode = 1
        /\ out[Len(out)] = "Error reading template or writing settings"
        /\ effects \in {<<>>, <<"makedirs">>}
        /\ rendered = <<>>
        /\ dirExists

\* a step of write_claude_settings up to and including the template read
\* leaves the settings file alone, and the failed read is the last step
BeforeTheWrite ==
    /\ pc \in {"mkdir", "render"} => settingsFile' = settingsFile /\ writes' = writes
    /\ (pc = "render" /\ pc' # "write") =>
          pc' = "exited" /\ effects' = effects /\ dirExists' = dirExists
    /\ settingsFile' # settingsFile => pc = "write" /\ rendered # <<>>

\* C11: write_claude_settings opens the output file for writing only after
\* the template was read and rendered; when the template cannot be read the
\* call reports the error and ends the command with status 1, not trying
\* again, the content of an existing output file is unchanged, and its only
\* possible effect is the creation of the target directory.
C11_TemplateFailureKeepsFile ==
    /\ [](OpenedAfterRender /\ EndedOnTemplate)
    /\ [][BeforeTheWrite]_vars

\* a second client command fails on the template after a first one wrote the
\* settings file, which still holds what the first one wrote
C11_Witness ==
    /\ TemplateUnread
    /\ runs = 2 /\ writes = 1
    /\ settingsFile.exists /\ Contains(settingsFile.content, <<"arn:app/">>)

====
